---- MODULE Spec2Model ----
(***************************************************************************)
(* Model of the ADO summary agent: Agent.run (fetch, context assembly,     *)
(* retry loop around the generation call, formatting, final report), the   *)
(* ContextBuilder and the Summarizer's response handling.                  *)
(*                                                                         *)
(* Text.  A Python str is a sequence of runs [c |-> kind, n |-> length].   *)
(* A run whose kind is one character ("a", " ", ".", "<", ...) stands for  *)
(* n copies of that character.  A run whose kind is a longer name stands   *)
(* for one opaque piece of text of n characters (a literal of an f-string, *)
(* a word, a glyph); a piece cut by a slice keeps its kind with a smaller  *)
(* n.  This keeps the real lengths (15000, 120000) within reach.           *)
(***************************************************************************)
EXTENDS Integers, Sequences, FiniteSets, TLC

VARIABLES
    pc,                 \* position of main()/Agent.run
    WORK_ITEM_IDS,      \* settings.WORK_ITEM_IDS
    server,             \* what the tracking service answers, per id
    work_items,         \* result of fetch_work_items
    primary_items,
    linked_by_primary,
    total,
    idx,                \* loop index of the item being processed (1-based)
    full_context,
    attempt,
    RETRY_DELAY,        \* seconds, as a fraction [num, den]
    last_exception,
    summary,
    summaries,          \* the blocks appended so far
    final_report,       \* value returned by run()
    raised,             \* the RuntimeError that left run(), or None
    saved,              \* what main() wrote to work_item_summaries.md
    calls,              \* this item's generation calls so far
    slept,              \* the argument of this item's latest time.sleep
    sleeps,             \* how many times this item has slept
    events,             \* history fetches, first generation calls, appended blocks
    b_pc,               \* position of the single ContextBuilder call
    b_primary,
    b_linked,
    b_history,
    b_sections,
    b_out,
    f_pc,               \* position of a single call of one function
    f_fn,               \* the function called
    f_in,               \* its argument
    f_out               \* what it returned

run_vars == <<pc, WORK_ITEM_IDS, server, work_items, primary_items, linked_by_primary,
              total, idx, full_context, attempt, RETRY_DELAY, last_exception, summary,
              summaries, final_report, raised, saved, calls, slept, sleeps, events>>
build_vars == <<b_pc, b_primary, b_linked, b_history, b_sections, b_out>>
fn_vars == <<f_pc, f_fn, f_in, f_out>>
vars == <<run_vars, build_vars, fn_vars>>

----------------------------------------------------------------------------
(* Text helpers *)

Run(c, n) == [c |-> c, n |-> n]
Lit(s) == <<[c |-> s, n |-> Len(s)]>>
Piece(s, n) == <<[c |-> s, n |-> n]>>

\* Python None; a run of length 0 never occurs in a text
None == <<[c |-> "None", n |-> 0]>>
\* an absent dict
EmptyDict == [k \in {} |-> None]

IsChar(c) == Len(c) = 1
IsSpace(c) == c \in {" ", "\n", "\t"}

Get(d, k, dflt) == IF k \in DOMAIN d THEN d[k] ELSE dflt

Truthy(v) == v # None /\ v # <<>>

\* str(v) inside an f-string
Str(v) == IF v = None THEN Lit("None") ELSE v

\* sum of a sequence of numbers, concatenation of a sequence of sequences
\* (both by halving, which keeps the evaluation shallow)
RECURSIVE SumN(_)
SumN(ns) ==
    IF ns = <<>> THEN 0
    ELSE IF Len(ns) = 1 THEN ns[1]
    ELSE LET m == Len(ns) \div 2
         IN SumN(SubSeq(ns, 1, m)) + SumN(SubSeq(ns, m + 1, Len(ns)))
RECURSIVE Concat(_)
Concat(ss) ==
    IF ss = <<>> THEN <<>>
    ELSE IF Len(ss) = 1 THEN ss[1]
    ELSE LET m == Len(ss) \div 2
         IN Concat(SubSeq(ss, 1, m)) \o Concat(SubSeq(ss, m + 1, Len(ss)))

\* len(t)
TLen(t) == SumN([i \in 1..Len(t) |-> t[i].n])

\* adjacent runs of the same character are one run; no run is empty
Norm(t) ==
    LET nz == SelectSeq(t, LAMBDA r : r.n # 0)
        Merges(i) == i > 1 /\ IsChar(nz[i].c) /\ nz[i - 1].c = nz[i].c
        LastOf(i) == CHOOSE j \in i..Len(nz) :
                        /\ \A m \in (i + 1)..j : Merges(m)
                        /\ j < Len(nz) => ~Merges(j + 1)
    IN Concat([i \in 1..Len(nz) |->
                 IF Merges(i) THEN <<>>
                 ELSE <<[nz[i] EXCEPT !.n = TLen(SubSeq(nz, i, LastOf(i)))]>>])

\* t[:k]
TTake(t, k) ==
    IF k <= 0 THEN <<>>
    ELSE LET whole == {i \in 0..Len(t) : TLen(SubSeq(t, 1, i)) <= k}
             m == CHOOSE i \in whole : \A j \in whole : j <= i
             rem == k - TLen(SubSeq(t, 1, m))
         IN IF m = Len(t) \/ rem = 0 THEN SubSeq(t, 1, m)
            ELSE Append(SubSeq(t, 1, m), [t[m + 1] EXCEPT !.n = rem])

\* sep.join(parts)
Join(parts, sep) ==
    Concat([i \in 1..(2 * Len(parts) - 1) |->
              IF i % 2 = 1 THEN parts[(i + 1) \div 2] ELSE sep])

\* c in t, for a character or piece c
Has(t, c) == \E i \in 1..Len(t) : t[i].c = c

\* t.strip()
RECURSIVE LStrip(_)
LStrip(t) == IF t # <<>> /\ IsSpace(Head(t).c) THEN LStrip(Tail(t)) ELSE t
RECURSIVE RStrip(_)
RStrip(t) ==
    IF t # <<>> /\ IsSpace(t[Len(t)].c) THEN RStrip(SubSeq(t, 1, Len(t) - 1)) ELSE t
Strip(t) == RStrip(LStrip(t))

\* t.endswith(m), t and m in normal form
EndsWith(t, m) ==
    /\ Len(t) >= Len(m)
    /\ LET off == Len(t) - Len(m)
       IN /\ \A i \in 2..Len(m) : t[off + i] = m[i]
          /\ m # <<>> => /\ t[off + 1].c = m[1].c
                         /\ IF IsChar(m[1].c) THEN t[off + 1].n >= m[1].n
                                              ELSE t[off + 1].n = m[1].n

\* decimal rendering of a non-negative integer
RECURSIVE Digits(_)
Digits(k) == IF k < 10 THEN 1 ELSE 1 + Digits(k \div 10)
NumText(k) == <<[c |-> "number", n |-> Digits(k), num |-> k]>>

----------------------------------------------------------------------------
(* ContextBuilder (context_builder.py) *)

max_context_length == 120000
max_length == 15000
RelShown == 8
TimelineEvents == 15
TimelineShown == 5

Max2(a, b) == IF a >= b THEN a ELSE b
Min2(a, b) == IF a <= b THEN a ELSE b

\* seq[-k:]
LastN(seq, k) == SubSeq(seq, Max2(1, Len(seq) - k + 1), Len(seq))
\* seq[:k]
FirstN(seq, k) == SubSeq(seq, 1, Min2(k, Len(seq)))

\* index of the first run of `close` after the head, 0 when there is none
FirstClose(t, close) ==
    IF \E i \in 2..Len(t) : t[i].c = close
    THEN CHOOSE i \in 2..Len(t) : t[i].c = close /\ \A j \in 2..(i - 1) : t[j].c # close
    ELSE 0

\* re.sub(open [^close]+ close (\s*)?, '', t), t in normal form: eat_space tells
\* whether the pattern ends in \s*
RECURSIVE StripBetween(_, _, _, _)
StripBetween(t, open, close, eat_space) ==
    IF t = <<>> THEN <<>>
    ELSE IF Head(t).c # open
         THEN <<Head(t)>> \o StripBetween(Tail(t), open, close, eat_space)
    ELSE LET j == FirstClose(t, close)
         IN IF j = 0 THEN t
            ELSE IF j = 2 /\ Head(t).n = 1
                 THEN <<t[1], t[2]>>
                      \o StripBetween(SubSeq(t, 3, Len(t)), open, close, eat_space)
                 ELSE LET rest == Norm(<<Run(close, t[j].n - 1)>> \o SubSeq(t, j + 1, Len(t)))
                      IN StripBetween(IF eat_space THEN LStrip(rest) ELSE rest,
                                      open, close, eat_space)

\* re.sub(r'<[^>]+>', '', t)
StripTags(t) == StripBetween(t, "<", ">", FALSE)

\* does t (normal form) start, at the last character of its first run, with pat
MatchAt(t, pat) ==
    /\ Len(t) >= Len(pat)
    /\ t[1].c = pat[1]
    /\ t[Len(pat)].c = pat[Len(pat)]
    /\ \A i \in 2..(Len(pat) - 1) : t[i] = Run(pat[i], 1)

\* t.replace(pat, rep): pat a sequence of characters, left to right, no re-scan
RECURSIVE Replace(_, _, _)
Replace(t, pat, rep) ==
    IF t = <<>> THEN <<>>
    ELSE IF MatchAt(t, pat)
         THEN LET k == Len(pat)
              IN <<Run(t[1].c, t[1].n - 1)>> \o rep
                 \o Replace(Norm(<<Run(t[k].c, t[k].n - 1)>> \o SubSeq(t, k + 1, Len(t))),
                            pat, rep)
         ELSE <<Head(t)>> \o Replace(Tail(t), pat, rep)

ENT_NBSP == <<"&", "n", "b", "s", "p", ";">>
ENT_AMP == <<"&", "a", "m", "p", ";">>
ENT_LT == <<"&", "l", "t", ";">>
ENT_GT == <<"&", "g", "t", ";">>

\* re.sub(r'\s+', ' ', t)
RECURSIVE Collapse(_)
Collapse(t) ==
    IF t = <<>> THEN <<>>
    ELSE IF IsSpace(Head(t).c) THEN <<Run(" ", 1)>> \o Collapse(LStrip(Tail(t)))
    ELSE <<Head(t)>> \o Collapse(Tail(t))

\* t[:limit].rfind(c): 0-based position of the last c before limit, -1 if none
RECURSIVE RFindFrom(_, _, _, _)
RFindFrom(t, c, limit, off) ==
    IF t = <<>> \/ off >= limit THEN -1
    ELSE LET here == IF Head(t).c = c THEN Min2(off + Head(t).n - 1, limit - 1) ELSE -1
         IN Max2(here, RFindFrom(Tail(t), c, limit, off + Head(t).n))
RFind(t, c, limit) == RFindFrom(t, c, limit, 0)

\* ContextBuilder._clean_html, lines 138-143: tags, entities, whitespace
CleanMarkup(html_content) ==
    LET no_tags == StripTags(Norm(html_content))
        e1 == Norm(Replace(Norm(no_tags), ENT_NBSP, <<Run(" ", 1)>>))
        e2 == Norm(Replace(e1, ENT_AMP, <<Run("&", 1)>>))
        e3 == Norm(Replace(e2, ENT_LT, <<Run("<", 1)>>))
        e4 == Norm(Replace(e3, ENT_GT, <<Run(">", 1)>>))
    IN Norm(Strip(Collapse(e4)))

\* a test that would cut a text of exactly the limit
WithinLimitStrict(clean_text) == TLen(clean_text) < max_length
\* ContextBuilder._clean_html, line 147
WithinLimit(clean_text) == TLen(clean_text) <= max_length

\* ContextBuilder._clean_html, lines 145-163: cut at a sentence end or a space
SmartTruncate(clean_text) ==
    IF WithinLimit(clean_text) THEN clean_text
    ELSE LET truncated == TTake(clean_text, max_length)
             last_period == RFind(truncated, ".", max_length)
             last_exclamation == RFind(truncated, "!", max_length)
             last_question == RFind(truncated, "?", max_length)
             sentence_end == Max2(last_period, Max2(last_exclamation, last_question))
             last_space == RFind(truncated, " ", max_length)
         IN IF sentence_end * 10 > max_length * 8
            THEN TTake(clean_text, sentence_end + 1)
            ELSE IF last_space > 0
                 THEN Norm(TTake(clean_text, last_space) \o <<Run(".", 3)>>)
                 ELSE Norm(truncated \o <<Run(".", 3)>>)

clean_html(html_content) ==
    IF ~Truthy(html_content) THEN <<>> ELSE SmartTruncate(CleanMarkup(html_content))

\* Agent._clean_html (agent.py): tags, entities (amp last), whitespace; no cut
agent_clean_html(html_content) ==
    IF ~Truthy(html_content) THEN <<>>
    ELSE LET no_tags == StripTags(Norm(html_content))
             e1 == Norm(Replace(Norm(no_tags), ENT_NBSP, <<Run(" ", 1)>>))
             e2 == Norm(Replace(e1, ENT_LT, <<Run("<", 1)>>))
             e3 == Norm(Replace(e2, ENT_GT, <<Run(">", 1)>>))
             e4 == Norm(Replace(e3, ENT_AMP, <<Run("&", 1)>>))
         IN Norm(Strip(Collapse(e4)))

build_primary_context(work_item) ==
    LET fields == Get(work_item, "fields", EmptyDict)
    IN Lit("PRIMARY WORK ITEM:\nID: ")
       \o (IF "id" \in DOMAIN work_item THEN NumText(work_item["id"]) ELSE Lit("Unknown"))
       \o Lit("\nTitle: ") \o Str(Get(fields, "System.Title", <<>>))
       \o Lit("\nType: ") \o Str(Get(fields, "System.WorkItemType", <<>>))
       \o Lit("\nState: ") \o Str(Get(fields, "System.State", <<>>))
       \o Lit("\nPriority: ") \o Str(Get(fields, "Microsoft.VSTS.Common.Priority", Lit("Not Set")))
       \o Lit("\nArea: ") \o Str(Get(fields, "System.AreaPath", <<>>))
       \o Lit("\n\nDESCRIPTION:\n")
       \o clean_html(Get(fields, "System.Description", Lit("No description")))
       \o Lit("\n\nACCEPTANCE CRITERIA:\n")
       \o Str(Get(fields, "Microsoft.VSTS.Common.AcceptanceCriteria", Lit("Not specified")))

build_business_context(fields) ==
    LET business_value == Get(fields, "Microsoft.VSTS.Common.BusinessValue", <<>>)
        tags == Get(fields, "System.Tags", <<>>)
    IN Lit("BUSINESS CONTEXT:\nBusiness Value: ")
       \o (IF Truthy(business_value) THEN business_value ELSE Lit("Not quantified"))
       \o Lit("\nTags: ") \o (IF Truthy(tags) THEN tags ELSE Lit("None"))
       \o Lit("\nIteration: ") \o Str(Get(fields, "System.IterationPath", Lit("Not assigned")))
       \o Lit("\nAssigned To: ")
       \o Str(Get(Get(fields, "System.AssignedTo", EmptyDict), "displayName", Lit("Unassigned")))

build_technical_context(fields) ==
    Lit("TECHNICAL DETAILS:\nStory Points: ")
    \o Str(Get(fields, "Microsoft.VSTS.Scheduling.StoryPoints", Lit("Not estimated")))
    \o Lit("\nEffort: ") \o Str(Get(fields, "Microsoft.VSTS.Scheduling.Effort", Lit("Not estimated")))
    \o Lit("\nReason: ") \o Str(Get(fields, "System.Reason", Lit("Standard")))

\* rel types of the linked items, in order of first appearance (dict insertion order)
RECURSIVE RelTypes(_, _)
RelTypes(linked_items, seen) ==
    IF linked_items = <<>> THEN seen
    ELSE LET rel_type == Get(Head(linked_items), "_relationship", "Related")
         IN RelTypes(Tail(linked_items),
                     IF \E i \in 1..Len(seen) : seen[i] = rel_type
                     THEN seen ELSE Append(seen, rel_type))

LinkedSummary(item) ==
    LET item_fields == Get(item, "fields", EmptyDict)
    IN Str(IF "id" \in DOMAIN item THEN NumText(item["id"]) ELSE None)
       \o Lit(" - ") \o Str(Get(item_fields, "System.Title", Lit("Untitled")))
       \o Lit(" (") \o Str(Get(item_fields, "System.State", Lit("Unknown"))) \o Lit(")")

\* the summaries of the items of one relationship type, in input order
SelectRel(linked_items, rel_type) ==
    Concat([i \in 1..Len(linked_items) |->
              IF Get(linked_items[i], "_relationship", "Related") = rel_type
              THEN <<LinkedSummary(linked_items[i])>> ELSE <<>>])

\* a group that would list its first items and say nothing of the others
RelGroupLinesNoMore(rel_type, items) ==
    <<Lit(rel_type) \o Lit(":")>>
    \o [i \in 1..Len(FirstN(items, RelShown)) |-> Lit("  - ") \o items[i]]

\* the lines of one relationship group
RelGroupLines(rel_type, items) ==
    <<Lit(rel_type) \o Lit(":")>>
    \o [i \in 1..Len(FirstN(items, RelShown)) |-> Lit("  - ") \o items[i]]
    \o (IF Len(items) > RelShown
        THEN <<Lit("  - ... and ") \o NumText(Len(items) - RelShown) \o Lit(" more")>>
        ELSE <<>>)

RelLines(rel_types, linked_items) ==
    Concat([g \in 1..Len(rel_types) |->
              RelGroupLines(rel_types[g], SelectRel(linked_items, rel_types[g]))])

build_relationship_context(linked_items) ==
    IF linked_items = <<>> THEN Lit("RELATED ITEMS: None")
    ELSE Join(<<Lit("RELATED ITEMS:")>> \o RelLines(RelTypes(linked_items, <<>>), linked_items),
              Lit("\n"))

\* the line of one history event, <<>> (no line) when it carries no state change
TimelineLine(event) ==
    LET fields == Get(event, "fields", EmptyDict)
        changed_date == Get(Get(fields, "System.ChangedDate", EmptyDict), "newValue", <<>>)
        changed_by == Get(Get(Get(fields, "System.ChangedBy", EmptyDict),
                              "newValue", EmptyDict), "displayName", Lit("Unknown"))
    IN IF "System.State" \in DOMAIN fields
       THEN <<Str(changed_date) \o Lit(": ") \o Str(changed_by)
              \o Lit(" changed state from '")
              \o Str(Get(fields["System.State"], "oldValue", <<>>))
              \o Lit("' to '")
              \o Str(Get(fields["System.State"], "newValue", <<>>)) \o Lit("'")>>
       ELSE <<>>

KeyEvents(events_) == Concat([i \in 1..Len(events_) |-> TimelineLine(events_[i])])

\* a timeline that would look at the whole history
TimelineWindowAll(history) == history
\* the slice of the history the timeline looks at
TimelineWindow(history) == LastN(history, TimelineEvents)

build_timeline_context(history) ==
    IF history = <<>> THEN Lit("TIMELINE: No history available")
    ELSE LET key_events == KeyEvents(TimelineWindow(history))
         IN IF key_events # <<>>
            THEN Lit("TIMELINE:\n") \o Join(LastN(key_events, TimelineShown), Lit("\n"))
            ELSE Lit("TIMELINE: No significant state changes")

\* `if linked_items:` / `if history:` of build_comprehensive_context
IncludeRelationships(linked_items) == linked_items # <<>> /\ linked_items # None
\* a builder that would add the timeline whatever the history
IncludeTimelineAlways(history) == TRUE
IncludeTimeline(history) == history # <<>> /\ history # None

\* build_comprehensive_context, lines 23-40: the list of sections
BuildSections(primary_item, linked_items, history) ==
    LET fields == Get(primary_item, "fields", EmptyDict)
    IN <<build_primary_context(primary_item),
         build_business_context(fields),
         build_technical_context(fields)>>
       \o (IF IncludeRelationships(linked_items)
           THEN <<build_relationship_context(linked_items)>> ELSE <<>>)
       \o (IF IncludeTimeline(history)
           THEN <<build_timeline_context(history)>> ELSE <<>>)

\* a builder that would return the joined sections as they are
CutContextNever(full) == full
\* build_comprehensive_context, lines 45-47: the last-resort cut
CutContext(full) ==
    IF TLen(full) > max_context_length THEN TTake(full, max_context_length) ELSE full

build_comprehensive_context(primary_item, linked_items, history) ==
    CutContext(Join(BuildSections(primary_item, linked_items, history), Lit("\n\n")))

----------------------------------------------------------------------------
(* Summarizer._generate_ai_summary (summarizer.py): what it makes of the    *)
(* backend's answer.  A backend outcome is either an exception of           *)
(* client.chat, [raises |-> TRUE, msg |-> text], or a response,             *)
(* [raises |-> FALSE, response |-> dict], the empty dict standing for any   *)
(* falsy response (None included).                                          *)

SP == <<Run(" ", 1)>>
NL == <<Run("\n", 1)>>

\* str.lower() on the pieces the model uses
LowerWord(c) ==
    CASE c = "Connection" -> "connection"
      [] c = "Disconnected" -> "disconnected"
      [] c = "EXECUTIVE SUMMARY" -> "executive summary"
      [] c = "KEY DETAILS" -> "key details"
      [] c = "DESCRIPTION" -> "description"
      [] c = "NEXT ACTIONS" -> "next actions"
      [] c = "DEPENDENCIES & RISKS" -> "dependencies & risks"
      [] c = "RISKS & DEPENDENCIES" -> "risks & dependencies"
      [] OTHER -> c

\* needle in str(e).lower(), for a one-word needle
HasLower(t, needle) == \E i \in 1..Len(t) : LowerWord(t[i].c) = needle

NoContentMessage == Lit("No response content received from Ollama")

\* RuntimeError(f"AI summary generation failed: {str(e)}"), lines 170-173
WrapGenerationError(msg) == Lit("AI summary generation failed: ") \o msg

generate_ai_summary(outcome) ==
    IF outcome.raises
    THEN [ok |-> FALSE, error |-> WrapGenerationError(outcome.msg)]
    ELSE LET response == outcome.response
             content == Get(Get(response, "message", EmptyDict), "content", None)
         IN IF DOMAIN response # {} /\ Truthy(content)
            THEN [ok |-> TRUE, value |-> Strip(content)]
            ELSE [ok |-> FALSE, error |-> WrapGenerationError(NoContentMessage)]

----------------------------------------------------------------------------
(* Agent: truncation check and formatting of one summary (agent.py)         *)

Glyph(name, n) == <<[c |-> name, n |-> n]>>
CROSS == Glyph("glyph-cross-mark", 1)
Bold(name) == <<Run("*", 2)>> \o Lit(name) \o <<Run("*", 2)>>

truncation_markers ==
    { Glyph("glyph-warning", 2) \o SP \o Bold("RISKS & DEPENDENCIES"),
      Glyph("glyph-high-voltage", 1) \o SP \o Bold("EXECUTION PLAN"),
      Glyph("glyph-money-bag", 1) \o SP \o Bold("EXPECTED IMPACT/ROI"),
      Glyph("glyph-rocket", 1) \o SP \o Bold("FUTURE STATE"),
      Glyph("glyph-bar-chart", 1) \o SP \o Bold("CURRENT STATE"),
      Glyph("glyph-direct-hit", 1) \o SP \o Bold("PROBLEM STATEMENT") }

\* in pieces cut at its spaces where a line of 90 characters can end
TruncationNotice ==
    Lit("[Summary truncated due to length limitations. Please review the full work item for")
    \o SP \o Lit("complete details.]")

\* line 131
IsTruncated(summary_) ==
    \/ \E marker \in truncation_markers : EndsWith(Norm(Strip(summary_)), marker)
    \/ EndsWith(Norm(Strip(summary_)), <<Run(":", 1)>>)

\* lines 131-133
MarkTruncation(summary_) ==
    IF IsTruncated(summary_) THEN Strip(summary_) \o NL \o TruncationNotice ELSE summary_

\* _clean_title: re.sub(r'\[([^\]]+)\]\s*', '', title).strip()
clean_title(title) == Strip(StripBetween(Norm(title), "[", "]", TRUE))

\* text.split('\n')
SplitLines(t) ==
    LET single == Concat([i \in 1..Len(t) |->
                            IF t[i].c = "\n" THEN [j \in 1..t[i].n |-> Run("\n", 1)]
                            ELSE <<t[i]>>])
        breaks == <<0>> \o SelectSeq([i \in 1..Len(single) |-> i],
                                     LAMBDA i : single[i].c = "\n")
                  \o <<Len(single) + 1>>
    IN [k \in 1..(Len(breaks) - 1) |-> SubSeq(single, breaks[k] + 1, breaks[k + 1] - 1)]

artifacts ==
    {"STRICT RULES:", "OUTPUT FORMAT", "RULES:", "Use ONLY", "exact field values",
     "Copy field values", "No assumptions", "[exact ID]", "[exact type]", "[exact state]",
     "[Copy description", "based on title and description only"}

is_instruction_artifact(line) == \E i \in 1..Len(line) : line[i].c \in artifacts

valid_sections ==
    {"executive summary", "key details", "description", "acceptance criteria",
     "technical details", "next actions", "dependencies", "risks", "dependencies & risks"}

\* line.startswith('**') and line.endswith('**')
IsBoldLine(line) ==
    /\ line # <<>>
    /\ line[1].c = "*" /\ line[1].n >= 2
    /\ line[Len(line)].c = "*" /\ line[Len(line)].n >= 2

\* str.strip(chars) for a set of characters
RECURSIVE LStripChars(_, _)
LStripChars(t, chars) ==
    IF t # <<>> /\ Head(t).c \in chars THEN LStripChars(Tail(t), chars) ELSE t
RECURSIVE RStripChars(_, _)
RStripChars(t, chars) ==
    IF t # <<>> /\ t[Len(t)].c \in chars
    THEN RStripChars(SubSeq(t, 1, Len(t) - 1), chars) ELSE t

\* line.strip('*').strip()
SectionName(line) == Strip(RStripChars(LStripChars(line, {"*"}), {"*"}))

is_valid_section(section_name) ==
    Len(section_name) = 1 /\ LowerWord(section_name[1].c) \in valid_sections

WrapWidth == 90
RuleWidth == 100

\* the chunks textwrap splits a line into: words and whitespace, alternating
RECURSIVE Chunks(_, _)
Chunks(t, cur) ==
    IF t = <<>> THEN (IF cur = <<>> THEN <<>> ELSE <<cur>>)
    ELSE LET h == Head(t)
             same == cur = <<>> \/ (IsSpace(cur[1].c) <=> IsSpace(h.c))
             piece == IF IsSpace(h.c) THEN Run(" ", h.n) ELSE h
         IN IF same THEN Chunks(Tail(t), Norm(Append(cur, piece)))
            ELSE <<cur>> \o Chunks(Tail(t), <<piece>>)

IsSpaceChunk(chunk) == chunk # <<>> /\ IsSpace(chunk[1].c)

\* how many leading chunks fit on a line that already holds cur_len characters
RECURSIVE FitCount(_, _)
FitCount(chunks, cur_len) ==
    IF chunks = <<>> \/ cur_len + TLen(Head(chunks)) > WrapWidth THEN 0
    ELSE 1 + FitCount(Tail(chunks), cur_len + TLen(Head(chunks)))

\* textwrap.TextWrapper._wrap_chunks with break_long_words=False
RECURSIVE WrapChunks(_, _)
WrapChunks(chunks, lines) ==
    IF chunks = <<>> THEN lines
    ELSE LET c0 == IF lines # <<>> /\ IsSpaceChunk(Head(chunks)) THEN Tail(chunks) ELSE chunks
             fit == FitCount(c0, 0)
             k == IF fit = 0 /\ c0 # <<>> THEN 1 ELSE fit
             cur_line == SubSeq(c0, 1, k)
             kept == IF cur_line # <<>> /\ IsSpaceChunk(cur_line[Len(cur_line)])
                     THEN SubSeq(cur_line, 1, Len(cur_line) - 1) ELSE cur_line
         IN WrapChunks(SubSeq(c0, k + 1, Len(c0)),
                       IF kept # <<>> THEN Append(lines, Concat(kept)) ELSE lines)

\* textwrap.fill(line, width=90, break_long_words=False, break_on_hyphens=False)
Fill(line) == Join(WrapChunks(Chunks(line, <<>>), <<>>), NL)

\* re.sub(r'\[exact [^\]]+\]', '', value), the placeholders being pieces
exact_placeholders == {"[exact priority or \"Not specified\"]", "[exact path]"}
DropExact(t) == SelectSeq(t, LAMBDA r : r.c \notin exact_placeholders)

\* line.split(':', 1)
RECURSIVE BeforeColon(_)
BeforeColon(t) ==
    IF t = <<>> \/ Head(t).c = ":" THEN <<>> ELSE <<Head(t)>> \o BeforeColon(Tail(t))
RECURSIVE AfterColon(_)
AfterColon(t) ==
    IF t = <<>> THEN <<>>
    ELSE IF Head(t).c = ":" THEN Norm(<<Run(":", Head(t).n - 1)>> \o Tail(t))
    ELSE AfterColon(Tail(t))

bullet_chars == {"glyph-bullet", "-"}

\* _format_section_content: <<the formatted line>>, or <<>> for None
format_section_content(line, section) ==
    IF line # <<>> /\ line[1].c \in bullet_chars
    THEN LET content == Strip(LStripChars(line, bullet_chars \cup {" "}))
         IN IF content # <<>> THEN <<Lit("- ") \o content>> ELSE <<>>
    ELSE IF section = "key details"
    THEN IF Has(line, ":")
         THEN LET field == Strip(BeforeColon(line))
                  value == Strip(DropExact(Strip(AfterColon(line))))
              IN IF value # <<>> /\ value \notin {Lit("Not specified"), Lit("Not provided")}
                 THEN <<Lit("- **") \o field \o Lit("**: ") \o value>>
                 ELSE <<Lit("- **") \o field \o Lit("**: Not specified")>>
         ELSE <<>>
    ELSE IF TLen(line) > WrapWidth THEN <<Fill(line)>> ELSE <<line>>

\* the loop of _clean_summary_content over the split lines
RECURSIVE CleanLines(_, _, _)
CleanLines(lines, clean_lines, current_section) ==
    IF lines = <<>> THEN clean_lines
    ELSE LET line == Strip(Head(lines))
             rest == Tail(lines)
         IN IF line = <<>> THEN CleanLines(rest, clean_lines, current_section)
            ELSE IF is_instruction_artifact(line)
                 THEN CleanLines(rest, clean_lines, current_section)
            ELSE IF IsBoldLine(line)
                 THEN LET section_name == SectionName(line)
                      IN IF is_valid_section(section_name)
                         THEN CleanLines(rest,
                                  (IF clean_lines # <<>> /\ clean_lines[Len(clean_lines)] # <<>>
                                   THEN Append(clean_lines, <<>>) ELSE clean_lines)
                                  \o <<Lit("## ") \o section_name, <<>> >>,
                                  LowerWord(section_name[1].c))
                         ELSE CleanLines(rest, clean_lines, current_section)
            ELSE IF current_section # ""
                 THEN CleanLines(rest,
                                 clean_lines \o format_section_content(line, current_section),
                                 current_section)
            ELSE CleanLines(rest, clean_lines, current_section)

clean_summary_content(summary_) ==
    Join(CleanLines(SplitLines(Norm(summary_)), <<>>, ""), NL)

\* _format_summary_for_readability: re.sub raises TypeError on a title that is no str
FormatRaises(title) == title = None
FormatErrorMessage == Lit("expected string or bytes-like object, got 'NoneType'")

format_summary_for_readability(summary_, item_id, title) ==
    Lit("# Work Item ") \o NumText(item_id) \o Lit(": ") \o clean_title(title) \o Lit("\n\n")
    \o clean_summary_content(summary_)
    \o Lit("\n\n---\n\n")

\* lines 142-147
basic_formatted(summary_, item_id, title) ==
    NL \o <<Run("=", RuleWidth)>> \o NL
    \o Lit("Work Item ") \o NumText(item_id) \o Lit(": ") \o Str(title) \o NL
    \o <<Run("=", RuleWidth)>> \o Lit("\n\n") \o Str(summary_) \o NL

\* lines 150-156
error_summary(item_id, title, e) ==
    NL \o <<Run("-", RuleWidth)>> \o NL
    \o Lit("Work Item ") \o NumText(item_id) \o Lit(": ") \o Str(title) \o NL
    \o <<Run("-", RuleWidth)>> \o Lit("\n\n")
    \o CROSS \o Lit(" **ERROR FORMATTING WORK ITEM SUMMARY**\n\n")
    \o Lit("Formatting failed: ") \o e \o NL

\* '❌' not in s is the report's test of success
HasFailureMarker(block) == Has(block, "glyph-cross-mark")

----------------------------------------------------------------------------
(* The tracking service and ADOClient (ado_client.py)                       *)

MaxItems == 2

D(k, v) == k :> v

\* titles the service may hand out; None is a JSON null
TitlePlain == <<Run("[", 1)>> \o Lit("P0") \o <<Run("]", 1)>> \o SP \o Lit("Fix login")
Titles == {TitlePlain, None}

\* the id of an item that is never requested, only linked to
ExtraId == MaxItems + 1

LinkScenarios == {"none", "child", "related"}

\* the relations the service reports for a requested item: under every
\* scenario but "none" the first requested id links to ExtraId
RelationsOf(srv, id) ==
    IF srv.link = "child" /\ id = srv.linker
    THEN <<D("rel", "System.LinkTypes.Hierarchy-Forward") @@ D("target_id", ExtraId)>>
    ELSE IF srv.link = "related" /\ id = srv.linker
    THEN <<D("rel", "System.LinkTypes.Related") @@ D("target_id", ExtraId)>>
    ELSE <<>>

\* response.json() of GET workitems/{id}?$expand=all
PrimaryJson(srv, id) ==
    D("id", id)
    @@ D("fields", D("System.Title", srv.title[id]) @@ D("System.State", Lit("Active")))
    @@ D("relations", RelationsOf(srv, id))

\* response.json() of GET workitems/{id} for the linked-only item: a child
\* carries its parent in System.Parent
LinkedJson(srv, rel) ==
    D("id", ExtraId)
    @@ D("fields", D("System.Title", Lit("Linked item")) @@ D("System.State", Lit("New"))
                   @@ (IF srv.link = "child" THEN D("System.Parent", srv.linker)
                       ELSE EmptyDict))
    @@ D("_relationship", rel)

traversed_rels ==
    {"System.LinkTypes.Related", "System.LinkTypes.Hierarchy-Forward",
     "System.LinkTypes.Hierarchy-Reverse", "System.LinkTypes.Dependency-Forward",
     "System.LinkTypes.Dependency-Reverse"}

\* ADOClient._get_linked_work_items
get_linked_work_items(srv, work_item_id) ==
    LET relations == RelationsOf(srv, work_item_id)
    IN Concat([i \in 1..Len(relations) |->
                 IF relations[i]["rel"] \in traversed_rels
                 THEN <<LinkedJson(srv, relations[i]["rel"])>> ELSE <<>>])

\* the linked items not seen before, and the ids seen after them
RECURSIVE NewLinked(_, _)
NewLinked(linked_items, all_ids) ==
    IF linked_items = <<>> THEN <<>>
    ELSE LET linked_id == Head(linked_items)["id"]
         IN IF linked_id \notin all_ids
            THEN <<Head(linked_items)>> \o NewLinked(Tail(linked_items), all_ids \cup {linked_id})
            ELSE NewLinked(Tail(linked_items), all_ids)

\* ADOClient.get_work_items: the loop over the requested ids
RECURSIVE GetWorkItemsFrom(_, _, _)
GetWorkItemsFrom(srv, ids, all_ids) ==
    IF ids = <<>> THEN <<>>
    ELSE LET work_item_id == Head(ids)
         IN IF srv.status[work_item_id] = 200
            THEN LET fresh == NewLinked(get_linked_work_items(srv, work_item_id), all_ids)
                 IN <<PrimaryJson(srv, work_item_id)>> \o fresh
                    \o GetWorkItemsFrom(srv, Tail(ids),
                                        all_ids \cup {fresh[i]["id"] : i \in 1..Len(fresh)})
            ELSE GetWorkItemsFrom(srv, Tail(ids), all_ids)

get_work_items(srv, work_item_ids) ==
    GetWorkItemsFrom(srv, work_item_ids, {work_item_ids[i] : i \in 1..Len(work_item_ids)})

\* Agent.fetch_work_items: placeholders when nothing was retrieved
fetch_work_items(srv, work_item_ids) ==
    LET items == get_work_items(srv, work_item_ids)
    IN IF items = <<>>
       THEN [i \in 1..Len(work_item_ids) |->
               D("id", work_item_ids[i])
               @@ D("fields", D("System.Title", Lit("Work Item ") \o NumText(work_item_ids[i])))]
       ELSE items

\* the answers of get_work_item_history: [] on a non-200 status, else the updates
StateChange(ago) ==
    D("fields", D("System.ChangedDate", D("newValue", <<[c |-> "date", n |-> 24, ago |-> ago]>>))
                @@ D("System.State", D("oldValue", Lit("New")) @@ D("newValue", Lit("Active"))))
HistoryAnswers == {<<>>, <<StateChange(3)>>}

----------------------------------------------------------------------------
(* Agent.run and main (agent.py, main.py)                                   *)

MAX_RETRIES == 5
RETRY_DELAY_DEFAULT == 10

Seconds(k) == [num |-> k, den |-> 1]
\* delay * 1.5
TimesOneAndHalf(delay) == [num |-> delay.num * 3, den |-> delay.den * 2]
DelayLeq(a, b) == a.num * b.den <= b.num * a.den

\* what the generation backend may do on one call
ErrConnectionRefused == Lit("Connection") \o SP \o Lit("refused")
ErrDisconnected == Lit("Server") \o SP \o Lit("disconnected") \o SP \o Lit("without sending a response.")
BackendErrors == {ErrConnectionRefused, ErrDisconnected}

SummaryPlain == Bold("EXECUTIVE SUMMARY") \o NL \o Lit("Fixes the login page.")
SummaryMarker == SummaryPlain \o NL \o Glyph("glyph-warning", 2) \o SP \o Bold("RISKS & DEPENDENCIES")
SummaryBareHeading == SummaryPlain \o NL \o Bold("RISKS & DEPENDENCIES")
SummaryColon == Bold("NEXT ACTIONS") \o NL \o Lit("Steps") \o <<Run(":", 1)>>
Contents ==
    {SP \o SummaryPlain \o NL, SummaryMarker, SummaryBareHeading, SummaryColon, <<>>}

BackendOutcomes ==
    {[raises |-> TRUE, msg |-> m] : m \in BackendErrors}
    \cup {[raises |-> FALSE, response |-> EmptyDict]}
    \cup {[raises |-> FALSE, response |-> D("message", D("content", c))] : c \in Contents}

\* Summarizer.summarize
summarize(work_item_context, outcome) == generate_ai_summary(outcome)

\* line 106
IsConnectionError(e) == HasLower(e, "disconnected") \/ HasLower(e, "connection")

\* a loop that would go one round further
InRangeOneMore(attempt_) == attempt_ <= MAX_RETRIES + 1
\* range(1, MAX_RETRIES + 1)
InRange(attempt_) == attempt_ <= MAX_RETRIES
\* a loop that would go on after a success
AfterSuccessContinue(attempt_) == IF InRange(attempt_ + 1) THEN "attempt" ELSE "check"
\* line 98: break
AfterSuccess(attempt_) == "check"
\* a loop that would sleep after every failed attempt
SleepsBeforeRetryAlways(attempt_) == TRUE
\* line 102
SleepsBeforeRetry(attempt_) == attempt_ < MAX_RETRIES
\* an item that would start with the delay the previous item left
InitialDelayCarried(previous) == previous
\* line 88: RETRY_DELAY = 10, at the start of every item
InitialDelay(previous) == Seconds(RETRY_DELAY_DEFAULT)
\* lines 105-107: the delay of the next round
DelayAfter(delay, e) == IF IsConnectionError(e) THEN TimesOneAndHalf(delay) ELSE delay
\* a loop that would multiply before it sleeps
SleepArgumentAfterBackoff(delay, e) == DelayAfter(delay, e)
\* line 104: the argument of time.sleep
SleepArgument(delay, e) == delay
\* a handler that would keep the first error
CapturedFirst(previous, e) == IF previous # None THEN previous ELSE e
\* line 100
Captured(previous, e) == e

\* line 58-60: the id a linked item is grouped under, 0 when there is none
RelId(item) ==
    LET relations == Get(item, "relations", <<>>)
        target == IF relations # <<>> THEN Get(relations[1], "target", 0) ELSE 0
    IN IF target # 0 THEN target
       ELSE Get(Get(item, "fields", EmptyDict), "System.Parent", 0)

IsLinked(item) == "_relationship" \in DOMAIN item

\* lines 56-62
LinkedByPrimary(linked_items) ==
    [rel_id \in {RelId(linked_items[i]) : i \in 1..Len(linked_items)} \ {0} |->
        SelectSeq(linked_items, LAMBDA item : RelId(item) = rel_id)]

ItemTitle(primary_item) == Get(Get(primary_item, "fields", EmptyDict), "System.Title", Lit("N/A"))

\* line 115
FatalError(item_id, last) ==
    Lit("AI summarization failed after ") \o NumText(MAX_RETRIES)
    \o Lit(" attempts for work item ") \o NumText(item_id) \o Lit(": ")
    \o (IF last # None THEN last ELSE Lit("Unknown error"))

\* a fallback that would keep only the error note
BlocksOfErrorOnly(summary_, item_id, title) ==
    IF FormatRaises(title)
    THEN <<error_summary(item_id, title, FormatErrorMessage)>>
    ELSE <<format_summary_for_readability(summary_, item_id, title)>>

\* lines 136-157: the blocks one summarized item adds
BlocksOf(summary_, item_id, title) ==
    IF FormatRaises(title)
    THEN <<basic_formatted(summary_, item_id, title),
           error_summary(item_id, title, FormatErrorMessage)>>
    ELSE <<format_summary_for_readability(summary_, item_id, title)>>

\* line 174
SuccessCount(summaries_) == Len(SelectSeq(summaries_, LAMBDA b : ~HasFailureMarker(b)))

SuccessLabel == "  \n**Success Rate**: "

\* lines 170-184
FinalReport(summaries_, total_) ==
    Lit("# ADO Work Items Summary Report\n*Generated on ") \o Piece("timestamp", 22)
    \o Lit("*\n\n**Items Processed**: ") \o NumText(total_)
    \o Lit(SuccessLabel) \o NumText(SuccessCount(summaries_)) \o Lit("/") \o NumText(total_)
    \o Lit("  \n**Total Time**: ") \o Piece("minutes", 3) \o Lit(" minutes\n\n---\n\n")
    \o Concat(summaries_)
    \o Lit("\n\n---\n\n*End of Report*\n")

Ascending(n) == [i \in 1..n |-> i]
Descending(n) == [i \in 1..n |-> n + 1 - i]
IdsOf(ids) == {ids[i] : i \in 1..Len(ids)}

FnIdle == f_pc = "idle" /\ f_fn = "" /\ f_in = <<>> /\ f_out = <<>>

BuildIdle ==
    /\ b_pc = "idle" /\ b_primary = <<>> /\ b_linked = <<>> /\ b_history = <<>>
    /\ b_sections = <<>> /\ b_out = <<>>

Init ==
    /\ pc = "start"
    /\ \E n \in 1..MaxItems : WORK_ITEM_IDS \in {Ascending(n), Descending(n)}
    /\ server \in [status : {[id \in IdsOf(WORK_ITEM_IDS) |-> IF id = missing THEN 404 ELSE 200] :
                                 missing \in {0, Len(WORK_ITEM_IDS)}},
                   title : {[id \in IdsOf(WORK_ITEM_IDS) |-> IF id = untitled THEN None ELSE TitlePlain] :
                                untitled \in {0, Len(WORK_ITEM_IDS)}},
                   link : LinkScenarios,
                   linker : {WORK_ITEM_IDS[1]}]
    /\ work_items = <<>> /\ primary_items = <<>> /\ linked_by_primary = EmptyDict
    /\ total = 0 /\ idx = 0
    /\ full_context = <<>>
    /\ attempt = 0
    /\ RETRY_DELAY = Seconds(RETRY_DELAY_DEFAULT)
    /\ last_exception = None /\ summary = None
    /\ summaries = <<>>
    /\ final_report = None /\ raised = None /\ saved = None
    /\ calls = 0 /\ slept = Seconds(0) /\ sleeps = 0 /\ events = <<>>
    /\ BuildIdle
    /\ FnIdle

\* run(), lines 44-66: fetch, split primary from linked, group the linked
FetchWorkItems ==
    /\ pc = "start"
    /\ LET items == fetch_work_items(server, WORK_ITEM_IDS)
           primary == SelectSeq(items, LAMBDA item : ~IsLinked(item))
           linked == SelectSeq(items, IsLinked)
       IN /\ work_items' = items
          /\ primary_items' = primary
          /\ linked_by_primary' = LinkedByPrimary(linked)
          /\ total' = Len(primary)
          /\ pc' = IF Len(primary) > 0 THEN "item" ELSE "report"
    /\ summaries' = <<>>
    /\ UNCHANGED <<WORK_ITEM_IDS, server, idx, full_context, attempt, RETRY_DELAY,
                   last_exception, summary, final_report, raised, saved, calls,
                   slept, sleeps, events>>
    /\ UNCHANGED <<build_vars, fn_vars>>

\* a loop that would walk the items backwards
NextIndexReversed(i) == total - i
\* enumerate(primary_items, start=1): the index of the item the loop takes next
NextIndex(i) == i + 1

\* lines 69-91: next item, its history, its context, fresh retry state
BeginItem ==
    /\ pc = "item"
    /\ \E primary_history \in HistoryAnswers :
         LET i == NextIndex(idx)
             primary_item == primary_items[i]
             linked_context_items == Get(linked_by_primary, primary_item["id"], <<>>)
         IN /\ idx' = i
            /\ full_context' = build_comprehensive_context(primary_item, linked_context_items,
                                                           primary_history)
            /\ events' = Append(events, <<"history", i>>)
    /\ attempt' = 1
    /\ RETRY_DELAY' = InitialDelay(RETRY_DELAY)
    /\ summary' = None
    /\ last_exception' = None
    /\ calls' = 0
    /\ slept' = Seconds(0)
    /\ sleeps' = 0
    /\ pc' = "attempt"
    /\ UNCHANGED <<WORK_ITEM_IDS, server, work_items, primary_items, linked_by_primary, total,
                   summaries, final_report, raised, saved>>
    /\ UNCHANGED <<build_vars, fn_vars>>

\* lines 93-107: one round of the retry loop
Attempt ==
    /\ pc = "attempt"
    /\ \E outcome \in BackendOutcomes :
         LET r == summarize(full_context, outcome)
         IN IF r.ok
            THEN /\ summary' = r.value
                 /\ pc' = AfterSuccess(attempt)
                 /\ UNCHANGED <<attempt, RETRY_DELAY, last_exception, slept, sleeps>>
            ELSE /\ last_exception' = Captured(last_exception, r.error)
                 /\ IF SleepsBeforeRetry(attempt)
                    THEN /\ slept' = SleepArgument(RETRY_DELAY, r.error)
                         /\ sleeps' = sleeps + 1
                         /\ RETRY_DELAY' = DelayAfter(RETRY_DELAY, r.error)
                    ELSE UNCHANGED <<slept, sleeps, RETRY_DELAY>>
                 /\ attempt' = attempt + 1
                 /\ pc' = IF InRange(attempt + 1) THEN "attempt" ELSE "check"
                 /\ UNCHANGED summary
    /\ calls' = calls + 1
    /\ events' = IF attempt = 1 THEN Append(events, <<"generate", idx>>) ELSE events
    /\ UNCHANGED <<WORK_ITEM_IDS, server, work_items, primary_items, linked_by_primary, total,
                   idx, full_context, summaries, final_report, raised, saved>>
    /\ UNCHANGED <<build_vars, fn_vars>>

\* lines 110-115: every attempt failed, the run is over
AbortRun ==
    /\ pc = "check"
    /\ summary = None
    /\ raised' = FatalError(primary_items[idx]["id"], last_exception)
    /\ pc' = "raised"
    /\ UNCHANGED <<WORK_ITEM_IDS, server, work_items, primary_items, linked_by_primary, total,
                   idx, full_context, attempt, RETRY_DELAY, last_exception, summary,
                   summaries, final_report, saved, calls, slept, sleeps, events>>
    /\ UNCHANGED <<build_vars, fn_vars>>

\* lines 118-166: truncation notice, formatting (or its fallback), next item
FormatItem ==
    /\ pc = "check"
    /\ summary # None
    /\ LET primary_item == primary_items[idx]
           marked == MarkTruncation(summary)
           blocks == BlocksOf(marked, primary_item["id"], ItemTitle(primary_item))
       IN /\ summary' = marked
          /\ summaries' = summaries \o blocks
          /\ events' = events \o [b \in 1..Len(blocks) |-> <<"block", idx>>]
    /\ pc' = IF idx < total THEN "item" ELSE "report"
    /\ UNCHANGED <<WORK_ITEM_IDS, server, work_items, primary_items, linked_by_primary, total,
                   idx, full_context, attempt, RETRY_DELAY, last_exception, final_report,
                   raised, saved, calls, slept, sleeps>>
    /\ UNCHANGED <<build_vars, fn_vars>>

\* lines 170-185: run() returns the report and its locals are gone
ReturnReport ==
    /\ pc = "report"
    /\ final_report' = FinalReport(summaries, total)
    /\ pc' = "returned"
    /\ attempt' = 0 /\ calls' = 0 /\ sleeps' = 0 /\ slept' = Seconds(0)
    /\ RETRY_DELAY' = Seconds(RETRY_DELAY_DEFAULT)
    /\ last_exception' = None /\ summary' = None /\ full_context' = <<>>
    /\ UNCHANGED <<WORK_ITEM_IDS, server, work_items, primary_items, linked_by_primary, total,
                   idx, summaries, raised, saved, events>>
    /\ UNCHANGED <<build_vars, fn_vars>>

\* main(), lines 14-23: print and save what run() returned
MainSave ==
    /\ pc = "returned"
    /\ saved' = final_report
    /\ pc' = "exit"
    /\ UNCHANGED <<WORK_ITEM_IDS, server, work_items, primary_items, linked_by_primary, total,
                   idx, full_context, attempt, RETRY_DELAY, last_exception, summary,
                   summaries, final_report, raised, calls, slept, sleeps, events>>
    /\ UNCHANGED <<build_vars, fn_vars>>

Next ==
    \/ FetchWorkItems
    \/ BeginItem
    \/ Attempt
    \/ AbortRun
    \/ FormatItem
    \/ ReturnReport
    \/ MainSave

Spec == Init /\ [][Next]_vars

----------------------------------------------------------------------------
(* Properties of the retry loop and of the run                              *)

GenerationFailed == pc = "attempt" /\ calls' = calls + 1 /\ summary' = None
GenerationSucceeded == pc = "attempt" /\ summary' # None
Succeeded == pc = "check" /\ summary # None

\* C1: when every generation call for an item fails, the loop makes exactly
\* 5 calls, never a 6th, and the fatal error is raised once: the run stops
\* in the raised state and takes no further step.
C1_ExhaustedAfterFiveCalls ==
    /\ [](/\ calls <= 5
          /\ (pc = "check" /\ summary = None => calls = 5)
          /\ (pc = "raised" => calls = 5 /\ raised # None)
          /\ (raised # None => pc = "raised"))
    /\ [][pc # "raised" /\ (GenerationFailed /\ calls < 4 => pc' = "attempt")]_vars

C1_Witness == pc = "raised" /\ calls = 5 /\ sleeps = 4 /\ raised # None

\* C2: the first successful call ends the loop with that call's result: the
\* success is call number `attempt`, it neither sleeps nor changes the delay,
\* nothing after it calls, sleeps or multiplies for this item, and the delay
\* it leaves is 10 * 1.5^j for j of the failures before it.
C2_FirstSuccessEndsLoop ==
    /\ [](Succeeded =>
             /\ calls = attempt /\ sleeps = calls - 1
             /\ \E j \in 0..sleeps : RETRY_DELAY = [num |-> 10 * 3^j, den |-> 2^j])
    /\ [][/\ GenerationSucceeded =>
               /\ pc' = "check" /\ calls' = attempt
               /\ sleeps' = sleeps /\ slept' = slept /\ RETRY_DELAY' = RETRY_DELAY
          /\ Succeeded =>
               /\ calls' = calls /\ sleeps' = sleeps /\ RETRY_DELAY' = RETRY_DELAY
               /\ pc' \in {"item", "report"}
               /\ summaries' # summaries]_vars

C2_Witness == Succeeded /\ calls = 3 /\ sleeps = 2 /\ RETRY_DELAY = [num |-> 30, den |-> 2]

WrappedErrors == {WrapGenerationError(m) : m \in BackendErrors \cup {NoContentMessage}}

\* C3: an item that exhausts its retries ends the whole run: no event of a
\* later item exists, nothing is returned or saved although blocks may
\* have been collected, no step follows, and the raised error ends with the
\* error of the last failed call (a failed call that sleeps changes the delay
\* exactly when the error now held is a connection error).
C3_ExhaustionAbortsRun ==
    /\ [](pc = "raised" =>
             /\ \A e \in 1..Len(events) : events[e][2] <= idx
             /\ final_report = None /\ saved = None
             /\ last_exception \in WrappedErrors
             /\ raised = Lit("AI summarization failed after ") \o NumText(5)
                         \o Lit(" attempts for work item ") \o NumText(primary_items[idx]["id"])
                         \o Lit(": ") \o last_exception)
    /\ [][/\ pc # "raised"
          /\ (GenerationFailed /\ attempt < 5 =>
                (IsConnectionError(last_exception') <=> RETRY_DELAY' # RETRY_DELAY))]_vars

C3_Witness ==
    /\ pc = "raised" /\ idx = 1 /\ total = 2
    /\ raised = Lit("AI summarization failed after ") \o NumText(5)
                \o Lit(" attempts for work item ") \o NumText(primary_items[1]["id"])
                \o Lit(": ") \o WrapGenerationError(NoContentMessage)
    /\ RETRY_DELAY # Seconds(10)

\* C4: a failed call that is not the last one sleeps for the delay as it
\* was before the call (10 s the first time) and then multiplies the delay by
\* 1.5 exactly when its error is a connection or disconnect error; nothing
\* else changes the delay during the item, so it never decreases.
C4_SleepThenBackoff ==
    [][/\ pc \in {"attempt", "check"} => DelayLeq(RETRY_DELAY, RETRY_DELAY')
       /\ GenerationFailed /\ attempt < 5 =>
            /\ sleeps' = sleeps + 1
            /\ slept' = RETRY_DELAY
            /\ (sleeps = 0 => slept' = Seconds(10))
            /\ RETRY_DELAY' = IF IsConnectionError(last_exception')
                              THEN [num |-> RETRY_DELAY.num * 3, den |-> RETRY_DELAY.den * 2]
                              ELSE RETRY_DELAY
       /\ GenerationFailed /\ attempt >= 5 => sleeps' = sleeps /\ RETRY_DELAY' = RETRY_DELAY
       /\ pc \in {"attempt", "check"} /\ ~GenerationFailed =>
            sleeps' = sleeps /\ RETRY_DELAY' = RETRY_DELAY]_vars

C4_Witness ==
    /\ pc = "attempt" /\ sleeps = 3
    /\ slept = [num |-> 30, den |-> 2]
    /\ RETRY_DELAY = [num |-> 90, den |-> 4]

HistoryEvents == SelectSeq(events, LAMBDA e : e[1] = "history")
BlockEvents == SelectSeq(events, LAMBDA e : e[1] = "block")
KindRank(kind) == CASE kind = "history" -> 1 [] kind = "generate" -> 2 [] kind = "block" -> 3
PositionIn(ids, id) == CHOOSE i \in 1..Len(ids) : ids[i] = id

\* C5: items are taken one at a time in fetch order: the k-th history fetch
\* is item k's, the events of an item come as history, generation, blocks,
\* every event of item i precedes every event of item i+1, the primary items
\* keep the order of the requested ids, and the j-th block of the report is
\* the block of the item that appended it.
C5_SequentialInFetchOrder ==
    /\ \A k \in 1..Len(HistoryEvents) : HistoryEvents[k][2] = k
    /\ \A p, q \in 1..Len(events) :
         p < q => \/ events[p][2] < events[q][2]
                  \/ /\ events[p][2] = events[q][2]
                     /\ KindRank(events[p][1]) <= KindRank(events[q][1])
    /\ \A p, q \in 1..Len(primary_items) :
         p < q => PositionIn(WORK_ITEM_IDS, primary_items[p]["id"])
                  < PositionIn(WORK_ITEM_IDS, primary_items[q]["id"])
    /\ Len(BlockEvents) = Len(summaries)
    /\ \A j \in 1..Len(summaries) :
         \E r \in 1..Len(summaries[j]) :
            /\ summaries[j][r].c = "number"
            /\ summaries[j][r].num = primary_items[BlockEvents[j][2]]["id"]
            /\ \A r2 \in 1..(r - 1) : summaries[j][r2].c # "number"

C5_Witness ==
    /\ pc = "exit" /\ total = 2 /\ WORK_ITEM_IDS = <<2, 1>>
    /\ Len(summaries) = 2 /\ Len(events) = 6

EndsInHeading(t) == EndsWith(Norm(Strip(t)), Bold("RISKS & DEPENDENCIES"))
EndsInColon(t) == EndsWith(Norm(Strip(t)), <<Run(":", 1)>>)
EndsInNotice(t) == EndsWith(t, TruncationNotice)

\* C9: a summary that ends with a section-heading marker or with a colon is
\* flagged: after the truncation check it ends with the notice; in particular
\* a summary ending exactly in "**RISKS & DEPENDENCIES**" does.
C9_HeadingEndIsFlagged ==
    [][Succeeded /\ (EndsInHeading(summary) \/ EndsInColon(summary))
          => EndsInNotice(summary')]_vars

\* the summary ending in the bare heading has passed the truncation check
\* and carries no notice
C9_BareHeadingPassed ==
    /\ pc \in {"item", "report"} /\ summary # None
    /\ EndsInHeading(summary) /\ ~EndsInNotice(summary)

\* the count printed after "Success Rate" in the report header
HeaderSuccessCount(report) ==
    LET i == CHOOSE i \in 1..Len(report) : report[i].c = SuccessLabel
    IN report[i + 1].num

\* the blocks item i appended
BlocksOfItem(i) ==
    {j \in 1..Len(summaries) : BlockEvents[j][2] = i}

\* the processed items none of whose blocks carries the failure marker
ItemsWithoutFailure ==
    {i \in 1..idx : \A j \in BlocksOfItem(i) : ~HasFailureMarker(summaries[j])}

\* C10: the success count of the report header is the number of processed
\* items whose output carries no failure marker, also when the formatting of
\* an item failed (2 items, the second with a failure marker: 1/2).
C10_HeaderCountsItems ==
    pc \in {"returned", "exit"} =>
        HeaderSuccessCount(final_report) = Cardinality(ItemsWithoutFailure)

\* two items, the formatting of the second failed, the header says 2/2
C10_FormattingFailureCounted ==
    /\ pc = "exit" /\ total = 2 /\ idx = 2
    /\ Cardinality(ItemsWithoutFailure) = 1
    /\ \E j \in BlocksOfItem(2) : HasFailureMarker(summaries[j])
    /\ HeaderSuccessCount(saved) = 2

----------------------------------------------------------------------------
(* ContextBuilder.build_comprehensive_context on its own: the inputs are     *)
(* drawn in the initial state and one action builds the context.            *)

OpenTag == <<Run("<", 1)>> \o Lit("p") \o <<Run(">", 1)>>
CloseTag == <<Run("<", 1)>> \o Lit("/p") \o <<Run(">", 1)>>

Descriptions ==
    {EmptyDict,
     D("System.Description", OpenTag \o Lit("Login") \o SP \o Lit("fails") \o CloseTag),
     D("System.Description", <<Run("x", 20000)>>)}

Criteria ==
    {EmptyDict,
     D("Microsoft.VSTS.Common.AcceptanceCriteria", <<Run("y", 20000)>>),
     D("Microsoft.VSTS.Common.AcceptanceCriteria", Piece("criteria", 130000))}

BuildPrimaries ==
    {D("id", 42)
     @@ D("fields", D("System.Title", TitlePlain) @@ D("System.State", Lit("Active"))
                    @@ description @@ criteria) :
        description \in Descriptions, criteria \in Criteria}

LinkedItem(id, rel) ==
    D("id", id)
    @@ D("fields", D("System.Title", Lit("Linked item")) @@ D("System.State", Lit("New")))
    @@ D("_relationship", rel)

\* a linked item the agent attached no relationship to
UnlabelledItem(id) == D("id", id) @@ D("fields", D("System.Title", Lit("Linked item")))

\* 20 linked items: ten children, between them two related items, the second
\* without a label, and eight parents
MixedLinks ==
    [i \in 1..20 |->
        IF i = 3 THEN LinkedItem(60 + i, "Related")
        ELSE IF i = 7 THEN UnlabelledItem(60 + i)
        ELSE IF i \in 9..16 THEN LinkedItem(60 + i, "Parent")
        ELSE LinkedItem(60 + i, "Child")]

BuildLinked ==
    {<<>>,
     <<LinkedItem(43, "Child")>>,
     <<LinkedItem(43, "Child"), LinkedItem(44, "Related")>>,
     [i \in 1..9 |-> LinkedItem(50 + i, "Child")],
     MixedLinks}

\* a revision that changes no state
Edit(ago) ==
    D("fields", D("System.ChangedDate", D("newValue", <<[c |-> "date", n |-> 24, ago |-> ago]>>)))

\* 10 revisions, oldest first: 7 older than 90 days, 3 of the last days
OldThenRecent == [i \in 1..10 |-> StateChange(IF i <= 7 THEN 200 - i ELSE 11 - i)]
QuietThenRecent ==
    [i \in 1..10 |-> IF i <= 7 THEN Edit(200 - i) ELSE StateChange(11 - i)]

\* 17 revisions: the state changes in the first, second, fourth and sixteenth
EarlyAndLate ==
    [i \in 1..17 |-> IF i \in {1, 2, 4, 16} THEN StateChange(18 - i) ELSE Edit(18 - i)]
\* 20 revisions: a state change in every odd one
EveryOther ==
    [i \in 1..20 |-> IF i % 2 = 1 THEN StateChange(21 - i) ELSE Edit(21 - i)]
\* 17 revisions: state changes in the first two only
EarlyOnly == [i \in 1..17 |-> IF i <= 2 THEN StateChange(18 - i) ELSE Edit(18 - i)]

BuildHistories ==
    {<<>>, <<StateChange(3)>>, OldThenRecent, QuietThenRecent,
     EarlyAndLate, EveryOther, EarlyOnly}

RunIdle ==
    /\ pc = "idle" /\ WORK_ITEM_IDS = <<>> /\ server = EmptyDict
    /\ work_items = <<>> /\ primary_items = <<>> /\ linked_by_primary = EmptyDict
    /\ total = 0 /\ idx = 0 /\ full_context = <<>> /\ attempt = 0
    /\ RETRY_DELAY = Seconds(RETRY_DELAY_DEFAULT)
    /\ last_exception = None /\ summary = None /\ summaries = <<>>
    /\ final_report = None /\ raised = None /\ saved = None
    /\ calls = 0 /\ slept = Seconds(0) /\ sleeps = 0 /\ events = <<>>

InitBuild ==
    /\ RunIdle
    /\ FnIdle
    /\ b_pc = "ready"
    /\ b_primary \in BuildPrimaries
    /\ b_linked \in BuildLinked
    /\ b_history \in BuildHistories
    /\ b_sections = <<>>
    /\ b_out = <<>>

\* build_comprehensive_context(primary_item, linked_items, history)
Build ==
    /\ b_pc = "ready"
    /\ b_sections' = BuildSections(b_primary, b_linked, b_history)
    /\ b_out' = build_comprehensive_context(b_primary, b_linked, b_history)
    /\ b_pc' = "done"
    /\ UNCHANGED <<b_primary, b_linked, b_history>>
    /\ UNCHANGED <<run_vars, fn_vars>>

NextBuild == Build

SpecBuild == InitBuild /\ [][NextBuild]_vars

----------------------------------------------------------------------------
(* Properties of the built context                                          *)

Built == b_pc = "done"
JoinedLength == TLen(Join(b_sections, Lit("\n\n")))

\* C6: whatever the primary item, the linked items and the history, the
\* built context is at most 120,000 characters long.
C6_ContextWithinMaximum == Built => TLen(b_out) <= 120000

C6_Witness == Built /\ JoinedLength > 120000 /\ TLen(b_out) = 120000

\* the section a piece of text opens, "" when it opens none
SectionOpened(piece) ==
    IF piece.n # Len(piece.c) THEN ""
    ELSE CASE piece.c = "PRIMARY WORK ITEM:\nID: " -> "Primary"
           [] piece.c = "BUSINESS CONTEXT:\nBusiness Value: " -> "Business"
           [] piece.c = "TECHNICAL DETAILS:\nStory Points: " -> "Technical"
           [] piece.c \in {"RELATED ITEMS:", "RELATED ITEMS: None"} -> "Relationships"
           [] piece.c \in {"TIMELINE:\n", "TIMELINE: No significant state changes",
                           "TIMELINE: No history available"} -> "Timeline"
           [] OTHER -> ""

\* the sections of a text, in the order they open
SectionsOf(t) ==
    LET opened == [i \in 1..Len(t) |-> SectionOpened(t[i])]
    IN SelectSeq(opened, LAMBDA name : name # "")

ExpectedSections ==
    <<"Primary", "Business", "Technical">>
    \o (IF b_linked # <<>> THEN <<"Relationships">> ELSE <<>>)
    \o (IF b_history # <<>> THEN <<"Timeline">> ELSE <<>>)

IsPrefix(a, b) == Len(a) <= Len(b) /\ a = SubSeq(b, 1, Len(a))

TimelineDates(t) ==
    LET start == CHOOSE i \in 1..Len(t) : SectionOpened(t[i]) = "Timeline"
    IN {t[i].ago : i \in {j \in start..Len(t) : t[j].c = "date"}}

HasTimeline(t) == \E i \in 1..Len(t) : SectionOpened(t[i]) = "Timeline"

\* C8: the timeline of the built context lists state changes only of
\* revisions of the last 90 days.
C8_TimelineOnlyRecent ==
    Built /\ HasTimeline(b_out) => \A ago \in TimelineDates(b_out) : ago <= 90

\* 10 revisions, 3 recent and 7 older ones with a state change: the timeline
\* lists entries of older revisions
C8_OldRevisionListed ==
    /\ Built /\ b_history = OldThenRecent /\ HasTimeline(b_out)
    /\ \E ago \in TimelineDates(b_out) : ago > 90
    /\ Cardinality(TimelineDates(b_out)) = 5

----------------------------------------------------------------------------
(* Properties of fetching and of the formatting fallback                    *)

PlaceholderTitle(id) == Lit("Work Item ") \o NumText(id)
FetchFailed(id) == server.status[id] # 200
IsProcessedAsPlaceholder(id) ==
    \E p \in 1..Len(primary_items) :
        /\ primary_items[p]["id"] = id
        /\ ItemTitle(primary_items[p]) = PlaceholderTitle(id)

\* C11: every requested id whose fetch failed is processed as a placeholder
\* item carrying the id and a synthesized title, whether all fetches failed
\* or only some of them.
C11_FailedFetchGetsPlaceholder ==
    pc \notin {"start", "idle"} =>
        \A id \in IdsOf(WORK_ITEM_IDS) : FetchFailed(id) => IsProcessedAsPlaceholder(id)

\* two ids requested, one fetched and one failed: the run ends having
\* processed one item, the failed id is in no item
C11_FailedItemLost ==
    /\ pc = "exit" /\ Len(WORK_ITEM_IDS) = 2 /\ total = 1
    /\ \E id \in IdsOf(WORK_ITEM_IDS) :
         /\ FetchFailed(id)
         /\ \A p \in 1..Len(primary_items) : primary_items[p]["id"] # id

\* sub occurs in t as consecutive pieces
Contains(t, sub) ==
    \E off \in 0..(Len(t) - Len(sub)) : SubSeq(t, off + 1, off + Len(sub)) = sub

ErrorNote == " **ERROR FORMATTING WORK ITEM SUMMARY**\n\n"

\* C12: when the formatting of a generated summary fails the run goes on:
\* the item adds a plain block that contains the summary text and, after it,
\* a block with the error note; nothing is raised, and the loop moves to the
\* next item (or to the report after the last one).
C12_FormattingFailureContained ==
    /\ [](pc = "item" => idx < total /\ raised = None)
    /\ [][Succeeded /\ ItemTitle(primary_items[idx]) = None =>
            /\ Len(summaries') = Len(summaries) + 2
            /\ SubSeq(summaries', 1, Len(summaries)) = summaries
            /\ Contains(summaries'[Len(summaries) + 1], summary')
            /\ ~Has(summaries'[Len(summaries) + 1], ErrorNote)
            /\ Has(summaries'[Len(summaries) + 2], ErrorNote)
            /\ HasFailureMarker(summaries'[Len(summaries) + 2])
            /\ raised' = None
            /\ pc' = IF idx < total THEN "item" ELSE "report"]_vars

C12_Witness ==
    /\ pc = "exit" /\ total = 2 /\ Len(summaries) = 3
    /\ Has(summaries[2], ErrorNote)
    /\ ~Has(summaries[3], ErrorNote)
    /\ Has(saved, ErrorNote)

----------------------------------------------------------------------------
(* Agent._format_history (agent.py): the update history as lines, updates   *)
(* older than 90 days left out.  A revisedDate is a piece "date" that       *)
(* datetime.fromisoformat parses, ago days before now, any other text makes *)
(* it raise ValueError, and <<>> is a missing date.                         *)

HistoryWindowDays == 90
HistoryShown == 15

Parses(changed_date_str) == Len(changed_date_str) = 1 /\ changed_date_str[1].c = "date"

\* a filter that would drop what it cannot parse
IsTooOldFailClosed(changed_date_str) ==
    Truthy(changed_date_str)
    /\ (Parses(changed_date_str) => changed_date_str[1].ago > HistoryWindowDays)

\* lines 373-391: is the update skipped (`continue`)
IsTooOld(changed_date_str) ==
    IF ~Truthy(changed_date_str) THEN FALSE
    ELSE IF Parses(changed_date_str) THEN changed_date_str[1].ago > HistoryWindowDays
    ELSE FALSE

\* the fields of an update in the order of the dict
RECURSIVE FieldOrder(_)
FieldOrder(names) ==
    IF names = {} THEN <<>>
    ELSE LET first == CHOOSE f \in names : TRUE
         IN <<first>> \o FieldOrder(names \ {first})

\* lines 394-401
FieldChanges(fields) ==
    LET names == FieldOrder(DOMAIN fields \ {"System.History"})
    IN Concat([i \in 1..Len(names) |->
                 LET old == Get(fields[names[i]], "oldValue", <<>>)
                     new == Get(fields[names[i]], "newValue", <<>>)
                 IN IF old # new
                    THEN <<Lit(names[i]) \o Lit(": '") \o Str(old) \o Lit("' ")
                           \o Glyph("glyph-arrow", 1) \o Lit(" '") \o Str(new) \o Lit("'")>>
                    ELSE <<>>])

\* lines 366-408: the line of one update, <<>> (no line) when it is skipped or empty
HistoryLine(update) ==
    LET changed_by == Get(Get(update, "revisedBy", EmptyDict), "displayName", <<>>)
        changed_date_str == Get(update, "revisedDate", <<>>)
        fields == Get(update, "fields", EmptyDict)
        comments == Get(Get(fields, "System.History", EmptyDict), "newValue", <<>>)
        field_changes == FieldChanges(fields)
        stem == Lit("[") \o Str(changed_date_str) \o Lit("] ") \o Str(changed_by) \o Lit(":")
        line == stem \o SP
                \o (IF Truthy(comments)
                    THEN Lit("Comment: ") \o agent_clean_html(comments) \o SP ELSE <<>>)
                \o (IF field_changes # <<>>
                    THEN Lit("Changes: ") \o Join(field_changes, Lit(", ")) ELSE <<>>)
    IN IF IsTooOld(changed_date_str) THEN <<>>
       ELSE IF Strip(line) # stem THEN <<Strip(line)>> ELSE <<>>

history_lines(history) == Concat([i \in 1..Len(history) |-> HistoryLine(history[i])])

\* a tail that would keep every line
HistoryTailAll(lines) == lines
\* line 411: history_lines[-15:]
HistoryTail(lines) == LastN(lines, HistoryShown)

RecentHeader == "Recent Activity (Last 3 Months):"

\* Agent._format_history
format_history(history) ==
    IF ~Truthy(history) THEN <<>>
    ELSE LET lines == history_lines(history)
             recent_history == IF lines # <<>> THEN Join(HistoryTail(lines), NL) ELSE <<>>
         IN IF Truthy(recent_history)
            THEN Lit(RecentHeader) \o NL \o recent_history
            ELSE Lit("Recent Activity (Last 3 Months): No recent updates found.")

\* Agent._extract_work_item_context, lines 340-342: the parts the history adds
history_parts(history) ==
    IF Truthy(history) THEN <<format_history(history)>> ELSE <<>>

\* the updates of a work item as the service reports them: update i changes
\* System.Rev from i - 1 to i and update 2 has a comment, unless it is a silent one
DateOf(kind, age) ==
    CASE kind \in {"recent", "old", "edge", "silent"} ->
             D("revisedDate", <<[c |-> "date", n |-> 24, ago |-> age]>>)
      [] kind = "unparsable" -> D("revisedDate", Lit("not-a-date"))
      [] kind = "empty" -> D("revisedDate", <<>>)
      [] OTHER -> EmptyDict

Update(i, kind, age) ==
    D("rev", i)
    @@ D("revisedBy", D("displayName", Lit("Ana")))
    @@ DateOf(kind, age)
    @@ D("fields",
         (IF kind = "silent" THEN EmptyDict
          ELSE D("System.Rev", D("oldValue", NumText(i - 1)) @@ D("newValue", NumText(i))))
         @@ (IF i = 2 /\ kind # "silent"
             THEN D("System.History", D("newValue", OpenTag \o Lit("note") \o CloseTag))
             ELSE EmptyDict))

HistoryPatterns == {"recent", "aged", "mixed", "gaps", "edge", "old", "quiet"}

KindAt(pattern, i, n) ==
    CASE pattern = "recent" -> "recent"
      [] pattern = "old" -> "old"
      [] pattern = "aged" -> IF 2 * i <= n THEN "old" ELSE "recent"
      [] pattern = "mixed" -> <<"old", "recent", "unparsable">>[(i % 3) + 1]
      [] pattern = "gaps" -> <<"silent", "missing", "old", "empty">>[(i % 4) + 1]
      [] pattern = "edge" -> IF i <= 3 THEN <<"old", "edge", "unparsable">>[i] ELSE "recent"
      [] pattern = "quiet" -> IF i % 2 = 1 THEN "silent" ELSE "old"

\* ages in days, the history being oldest first
AgeAt(kind, i, n) ==
    CASE kind = "old" -> 91 + n - i
      [] kind = "edge" -> 90
      [] OTHER -> n - i

HistoryLengths == {0, 1, 3, 15, 16, 18}

HistoryInputs ==
    {[i \in 1..n |-> Update(i, KindAt(pattern, i, n), AgeAt(KindAt(pattern, i, n), i, n))] :
        n \in HistoryLengths, pattern \in HistoryPatterns}

----------------------------------------------------------------------------
(* Single calls of the text functions: the argument is drawn in the initial *)
(* state and one action per function applies it.                            *)

Chars(cs) == [i \in 1..Len(cs) |-> Run(cs[i], 1)]

LeadingSpace == {<<>>, SP, NL \o SP}
TrailingSpace == {<<>>, NL, SP \o NL}
Bodies == {<<>>, Lit("Fixes the login page."), SummaryMarker}

\* what client.chat may do, for one call of summarize
GenerateInputs ==
    {[raises |-> TRUE, msg |-> m] : m \in BackendErrors}
    \cup {[raises |-> FALSE, response |-> EmptyDict],
          [raises |-> FALSE, response |-> D("message", EmptyDict)],
          [raises |-> FALSE, response |-> D("message", D("content", None))]}
    \cup {[raises |-> FALSE, response |-> D("message", D("content", lead \o body \o trail))] :
            lead \in LeadingSpace, body \in Bodies, trail \in TrailingSpace}

EncodedTag ==
    Chars(ENT_LT) \o Lit("b") \o Chars(ENT_GT) \o Lit("bold")
    \o Chars(ENT_LT) \o Lit("/b") \o Chars(ENT_GT)
NestedEntity == Chars(<<"&", "a", "m", "p", ";", "l", "t", ";">>)

\* html field values
CleanInputs ==
    {<<>>,
     Lit("Login") \o SP \o Lit("fails"),
     OpenTag \o Lit("Login") \o SP \o Lit("fails") \o CloseTag,
     SP \o SP \o Lit("a") \o NL \o NL \o Lit("b") \o SP,
     Lit("a") \o Chars(ENT_NBSP) \o Lit("b"),
     Lit("a") \o SP \o Chars(ENT_AMP) \o SP \o Lit("b"),
     Lit("1") \o SP \o Chars(ENT_LT) \o SP \o Lit("2"),
     Lit("2") \o SP \o Chars(ENT_GT) \o SP \o Lit("1"),
     EncodedTag,
     NestedEntity,
     <<Run("x", 14999)>>,
     <<Run("x", 15000)>>,
     <<Run("x", 15001)>>,
     <<Run("x", 20000)>>,
     <<Run("x", 14000), Run(".", 1), Run("y", 5000)>>,
     <<Run("x", 10000), Run(" ", 1), Run("y", 9000)>>,
     <<Run("x", 14999), Run(".", 1), Run("y", 5000)>>,
     <<Run("x", 14999), Run(" ", 1), Run("y", 5000)>>,
     OpenTag \o <<Run("x", 15000)>> \o CloseTag}

InitFn ==
    /\ RunIdle
    /\ BuildIdle
    /\ f_pc = "ready"
    /\ f_out = <<>>
    /\ \/ f_fn = "summarize" /\ f_in \in GenerateInputs
       \/ f_fn \in {"clean_html", "agent_clean_html"} /\ f_in \in CleanInputs
       \/ f_fn = "format_history" /\ f_in \in HistoryInputs

\* Summarizer.summarize(context) with the backend doing f_in
CallSummarize ==
    /\ f_pc = "ready" /\ f_fn = "summarize"
    /\ f_out' = summarize(<<>>, f_in)
    /\ f_pc' = "done"
    /\ UNCHANGED <<f_fn, f_in, run_vars, build_vars>>

\* ContextBuilder._clean_html(f_in)
CallCleanHtml ==
    /\ f_pc = "ready" /\ f_fn = "clean_html"
    /\ f_out' = clean_html(f_in)
    /\ f_pc' = "done"
    /\ UNCHANGED <<f_fn, f_in, run_vars, build_vars>>

\* Agent._clean_html(f_in)
CallAgentCleanHtml ==
    /\ f_pc = "ready" /\ f_fn = "agent_clean_html"
    /\ f_out' = agent_clean_html(f_in)
    /\ f_pc' = "done"
    /\ UNCHANGED <<f_fn, f_in, run_vars, build_vars>>

\* Agent._format_history(f_in)
CallFormatHistory ==
    /\ f_pc = "ready" /\ f_fn = "format_history"
    /\ f_out' = format_history(f_in)
    /\ f_pc' = "done"
    /\ UNCHANGED <<f_fn, f_in, run_vars, build_vars>>

NextFn ==
    \/ CallSummarize
    \/ CallCleanHtml
    \/ CallAgentCleanHtml
    \/ CallFormatHistory

SpecFn == InitFn /\ [][NextFn]_vars

Returned(fn) == f_pc = "done" /\ f_fn = fn

\* the text of a response, <<>> when it has none
ContentOf(outcome) ==
    LET content == Get(Get(outcome.response, "message", EmptyDict), "content", None)
    IN IF content = None THEN <<>> ELSE content

\* C13: summarize never returns an empty summary as a success: a response
\* whose content is absent, empty or empty once trimmed makes the call fail
\* with a generation error.
C13_EmptyContentFails ==
    Returned("summarize") =>
        /\ (f_out.ok => TLen(f_out.value) > 0)
        /\ (~f_in.raises /\ Strip(ContentOf(f_in)) = <<>> =>
              ~f_out.ok /\ f_out.error = WrapGenerationError(NoContentMessage))

\* a response of white space only came back as the summary ""
C13_EmptySummaryReturned ==
    /\ Returned("summarize") /\ ~f_in.raises
    /\ TLen(ContentOf(f_in)) > 0
    /\ f_out.ok /\ f_out.value = <<>>

Cleaned(fn, t) == IF fn = "clean_html" THEN clean_html(t) ELSE agent_clean_html(t)
IsClean(fn) == fn \in {"clean_html", "agent_clean_html"}

\* C14: cleaning is idempotent: cleaning a cleaned text changes nothing,
\* also for texts with the entities &lt;, &gt; and &amp;, alone or nested.
C14_CleanIdempotent ==
    f_pc = "done" /\ IsClean(f_fn) => Cleaned(f_fn, f_out) = f_out

\* the entity-encoded tag <b>bold</b> comes out as a tag, which a second
\* cleaning strips
C14_EncodedTagCleanedTwice ==
    /\ Returned("clean_html") /\ f_in = EncodedTag
    /\ f_out = Chars(<<"<", "b", ">">>) \o Lit("bold") \o <<Run("<", 1)>> \o Lit("/b") \o <<Run(">", 1)>>
    /\ clean_html(f_out) = Lit("bold")

\* C15: a text no longer than the limit of 15,000 characters is returned
\* by the cut as it is, without a cut and without an ellipsis.
C15_ShortTextUncut ==
    Returned("clean_html") /\ TLen(CleanMarkup(f_in)) <= 15000 =>
        /\ f_out = CleanMarkup(f_in)
        /\ (f_in \in {<<Run("x", 14999)>>, <<Run("x", 15000)>>} => f_out = f_in)

C15_Witness ==
    /\ Returned("clean_html") /\ f_in = <<Run("x", 15000)>> /\ f_out = f_in

----------------------------------------------------------------------------
(* The filtered update history.  Ages are the days between the two values   *)
(* the code compares: the parsed revisedDate and datetime.now().            *)

\* the lines after the header of a returned history text
EntryLines(t) ==
    IF t # <<>> /\ t[1].c = RecentHeader /\ Len(t) > 1 /\ t[2].c = "\n"
    THEN Tail(SplitLines(t)) ELSE <<>>

Numbers(line) == SelectSeq(line, LAMBDA r : r.c = "number")
\* the update a line was written for: the new value of its System.Rev change
RevOf(line) == Numbers(line)[Len(Numbers(line))].num
ShownRevs(t) == [i \in 1..Len(EntryLines(t)) |-> RevOf(EntryLines(t)[i])]
IsShown(t, r) == \E i \in 1..Len(ShownRevs(t)) : ShownRevs(t)[i] = r

\* an update with something to say: a comment or a field whose value changed
HasContent(u) ==
    \E f \in DOMAIN u.fields :
        IF f = "System.History" THEN u.fields[f].newValue # <<>>
        ELSE u.fields[f].oldValue # u.fields[f].newValue

HasDate(u) == "revisedDate" \in DOMAIN u /\ u.revisedDate # <<>>
DateParses(u) == HasDate(u) /\ u.revisedDate[1].c = "date"
OlderThanWindow(u) == DateParses(u) /\ u.revisedDate[1].ago > HistoryWindowDays
\* left out because later lines took the places, not because of its date
CrowdedOut(t, r) == Len(ShownRevs(t)) = HistoryShown /\ r < ShownRevs(t)[1]

\* C16: _format_history returns at most 15 entries, they are the last
\* eligible updates in their original order, and every entry with a parsable
\* date is at most 90 days old.
C16_LastFifteenWithinWindow ==
    Returned("format_history") =>
        LET shown == ShownRevs(f_out)
            lines == EntryLines(f_out)
        IN /\ Len(shown) <= 15
           /\ \A i \in 1..Len(shown) : shown[i] \in 1..Len(f_in)
           /\ \A i \in 1..(Len(shown) - 1) : shown[i] < shown[i + 1]
           /\ \A i \in 1..Len(shown) : \A r \in (shown[i] + 1)..Len(f_in) :
                  HasContent(f_in[r]) /\ ~OlderThanWindow(f_in[r]) => IsShown(f_out, r)
           /\ \A i \in 1..Len(lines) : \A j \in 1..Len(lines[i]) :
                  lines[i][j].c = "date" => lines[i][j].ago <= 90

\* eighteen updates, all recent: the last fifteen are shown, oldest first
C16_Witness ==
    /\ Returned("format_history")
    /\ Len(f_in) = 18
    /\ DateParses(f_in[18]) /\ ~OlderThanWindow(f_in[18])
    /\ ~OlderThanWindow(f_in[1])
    /\ DateParses(f_in[1])
    /\ ShownRevs(f_out) = [i \in 1..15 |-> i + 3]

\* C20: an update is left out by the date filter only when its date parses
\* and is more than 90 days old; an update whose date is missing or does not
\* parse is kept and gets its line.
C20_DroppedOnlyWhenParsedAndOld ==
    Returned("format_history") =>
        \A r \in 1..Len(f_in) :
            HasContent(f_in[r]) /\ ~IsShown(f_out, r) =>
                OlderThanWindow(f_in[r]) \/ CrowdedOut(f_out, r)

\* a history with an unparsable date, a date 91 days old and one 90 days old:
\* the first and the last have a line, the second has none
C20_Witness ==
    /\ Returned("format_history")
    /\ \E r \in 1..Len(f_in) :
           HasDate(f_in[r]) /\ ~DateParses(f_in[r]) /\ IsShown(f_out, r)
    /\ \E r \in 1..Len(f_in) :
           HasContent(f_in[r]) /\ OlderThanWindow(f_in[r]) /\ ~IsShown(f_out, r)
    /\ \E r \in 1..Len(f_in) :
           DateParses(f_in[r]) /\ f_in[r].revisedDate[1].ago = 90 /\ IsShown(f_out, r)

----------------------------------------------------------------------------
(* Properties of the sections of the built context                          *)

\* the fields of the work item that the Primary section renders as text
PrimaryFields ==
    {"System.Title", "System.WorkItemType", "System.State",
     "Microsoft.VSTS.Common.Priority", "System.AreaPath", "System.Description",
     "Microsoft.VSTS.Common.AcceptanceCriteria"}

FieldValue(item, f) == Get(Get(item, "fields", EmptyDict), f, <<>>)

\* C17: no field of the primary work item that is longer than the per-field
\* limit of 15,000 characters is found whole in the built context, the
\* acceptance criteria included.
C17_PrimaryFieldsBounded ==
    Built => \A f \in PrimaryFields :
                 TLen(FieldValue(b_primary, f)) > 15000
                     => ~Contains(b_out, FieldValue(b_primary, f))

\* acceptance criteria of 20,000 characters are in the context in full
C17_LongCriteriaWhole ==
    /\ Built
    /\ TLen(FieldValue(b_primary, "Microsoft.VSTS.Common.AcceptanceCriteria")) = 20000
    /\ \E i \in 2..Len(b_out) :
           /\ b_out[i - 1].c = "\n\nACCEPTANCE CRITERIA:\n"
           /\ <<b_out[i]>> = FieldValue(b_primary, "Microsoft.VSTS.Common.AcceptanceCriteria")

\* the section of the assembled list that opens as the named one
SectionNamed(name) ==
    LET k == CHOOSE i \in 1..Len(b_sections) : SectionOpened(b_sections[i][1]) = name
    IN b_sections[k]

HasSection(name) == \E i \in 1..Len(b_sections) : SectionOpened(b_sections[i][1]) = name

\* the ages of the dates of a text, in the order of the text
DatesInOrder(t) ==
    LET dates == SelectSeq(t, LAMBDA r : r.c = "date")
    IN [i \in 1..Len(dates) |-> dates[i].ago]

ChangesState(event) == "System.State" \in DOMAIN event.fields

\* the positions, among the last 15 of the history, of the state changes
RecentStateChanges(history) ==
    SelectSeq([i \in 1..Len(history) |-> i],
              LAMBDA i : i > Len(history) - 15 /\ ChangesState(history[i]))

\* C18: the timeline lists the state changes found among the last 15 history
\* entries, at most the final 5 of them and in the order of the history; a
\* state change before the last 15 entries is never listed.
C18_TimelineLastFiveOfLastFifteen ==
    Built /\ HasSection("Timeline") =>
        LET recent == RecentStateChanges(b_history)
            listed == SubSeq(recent, Max2(1, Len(recent) - 4), Len(recent))
        IN /\ DatesInOrder(SectionNamed("Timeline"))
                  = [i \in 1..Len(listed) |-> b_history[listed[i]].fields["System.ChangedDate"].newValue[1].ago]
           /\ (recent = <<>>) = (SectionNamed("Timeline")[1].c # "TIMELINE:\n")

\* 20 revisions with a state change in every odd one: the first, third and
\* fifth are before the last 15, seven are among them, and the timeline lists
\* the last five, oldest first
C18_Witness ==
    /\ Built /\ HasSection("Timeline")
    /\ b_history = EveryOther
    /\ ChangesState(b_history[5])
    /\ Len(RecentStateChanges(b_history)) = 7
    /\ DatesInOrder(SectionNamed("Timeline")) = <<10, 8, 6, 4, 2>>

\* the relationship label an item is grouped under
LabelOf(item) == IF "_relationship" \in DOMAIN item THEN item["_relationship"] ELSE "Related"

\* the positions of the items of a label, and of the first item of every label
Members(linked, label) ==
    SelectSeq([i \in 1..Len(linked) |-> i], LAMBDA i : LabelOf(linked[i]) = label)
FirstOfLabel(linked) ==
    SelectSeq([i \in 1..Len(linked) |-> i],
              LAMBDA i : \A j \in 1..(i - 1) : LabelOf(linked[j]) # LabelOf(linked[i]))

\* what a line of the Relationships section says
LineSays(line) ==
    IF line[1].c = "  - ... and "
    THEN [kind |-> "more", label |-> "", num |-> line[2].num]
    ELSE IF line[1].c = "  - "
    THEN [kind |-> "item", label |-> "", num |-> line[2].num]
    ELSE [kind |-> "group", label |-> line[1].c, num |-> 0]

\* what the group of a label has to say: its label, its first min(k, 8)
\* items, and how many more there are when k > 8
GroupSays(linked, label) ==
    LET members == Members(linked, label)
        k == Len(members)
    IN <<[kind |-> "group", label |-> label, num |-> 0]>>
       \o [i \in 1..Min2(k, 8) |-> [kind |-> "item", label |-> "", num |-> linked[members[i]]["id"]]]
       \o (IF k > 8 THEN <<[kind |-> "more", label |-> "", num |-> k - 8]>> ELSE <<>>)

\* C19: the Relationships section lists the linked items by relationship
\* label; a group of k items shows its first min(k, 8) items in input order
\* and a line "... and N more" exactly when k > 8, with N = k - 8.
C19_GroupsShowEightAndCountRest ==
    Built /\ HasSection("Relationships") =>
        LET lines == Tail(SplitLines(SectionNamed("Relationships")))
            first == FirstOfLabel(b_linked)
        IN [i \in 1..Len(lines) |-> LineSays(lines[i])]
               = Concat([g \in 1..Len(first) |-> GroupSays(b_linked, LabelOf(b_linked[first[g]]))])

\* ten children, two related items and eight parents: the section shows eight
\* children and "... and 2 more", and all eight parents without such a line
C19_Witness ==
    /\ Built /\ HasSection("Relationships")
    /\ Len(Members(b_linked, "Child")) = 10
    /\ Len(Members(b_linked, "Parent")) = 8
    /\ LET says == [i \in 1..Len(Tail(SplitLines(SectionNamed("Relationships")))) |->
                      LineSays(Tail(SplitLines(SectionNamed("Relationships")))[i])]
       IN /\ Len(SelectSeq(says, LAMBDA l : l.kind = "more")) = 1
          /\ says[10] = [kind |-> "more", label |-> "", num |-> 2]
          /\ says[9] = [kind |-> "item", label |-> "", num |-> 78]
          /\ Len(says) = 10 + 3 + 9

----------------------------------------------------------------------------
(* The history section when no update has a line                            *)

NoUpdatesSentinel == Lit("Recent Activity (Last 3 Months): No recent updates found.")

\* no update of the history gets a line: there is none, or each one is
\* outside the window or has neither a comment nor a changed field
YieldsNoLine(history) ==
    \A r \in 1..Len(history) : OlderThanWindow(history[r]) \/ ~HasContent(history[r])

\* C21: whenever the filtering of the history yields no line, the history
\* is rendered as the sentinel "No recent updates found." - for an empty
\* history as well - and never as an empty or missing section.
C21_NoLineGivesSentinel ==
    Returned("format_history") /\ YieldsNoLine(f_in) =>
        /\ f_out = NoUpdatesSentinel
        /\ history_parts(f_in) = <<NoUpdatesSentinel>>

\* the empty history: the returned text is empty and the context gets no
\* history part at all
C21_EmptyHistoryUnrendered ==
    /\ Returned("format_history") /\ f_in = <<>>
    /\ f_out = <<>>
    /\ history_parts(f_in) = <<>>

\* histories whose updates are all too old or silent do get the sentinel
C21_SentinelWhenAllFiltered ==
    Returned("format_history") /\ f_in # <<>> /\ YieldsNoLine(f_in) =>
        /\ f_out = NoUpdatesSentinel
        /\ history_parts(f_in) = <<NoUpdatesSentinel>>

----------------------------------------------------------------------------
(* Sleeps of the retry loop and the start of every item                     *)

\* the failed generation calls of the item at hand
FailedCalls == IF summary # None THEN calls - 1 ELSE calls

\* C22: the loop sleeps only between attempts: with f failed calls so far
\* the item has slept min(f, 4) times, so neither a success nor the fifth
\* failure sleeps, and once the loop is over nothing sleeps before the fatal
\* error is raised or the item is formatted.
C22_SleepsOnlyBetweenAttempts ==
    /\ [](pc \in {"attempt", "check", "raised"} => sleeps = Min2(FailedCalls, 5 - 1))
    /\ [][pc = "check" => sleeps' = sleeps /\ slept' = slept]_vars

\* five failed calls without a connection error: four sleeps of 10 s, and
\* the loop is over with nothing generated
C22_Witness ==
    /\ pc = "check" /\ summary = None
    /\ calls = 5 /\ sleeps = 4
    /\ slept = Seconds(10) /\ RETRY_DELAY = Seconds(10)

\* C23: every item starts at attempt 1 with the delay of 10 s, no summary
\* and no captured error, whatever the item before it left behind.
C23_ItemStartsFresh ==
    [][pc = "item" /\ pc' # "item" =>
         /\ pc' = "attempt" /\ idx' = idx + 1
         /\ attempt' = 1 /\ RETRY_DELAY' = Seconds(10)
         /\ summary' = None /\ last_exception' = None]_vars

\* the first of two items succeeded at its third call, after two connection
\* errors that raised the delay to 22.5 s, and the second item is about to start
C23_Witness ==
    /\ pc = "item" /\ idx = 1 /\ total = 2
    /\ attempt = 3 /\ last_exception # None /\ summary # None
    /\ RETRY_DELAY = [num |-> 90, den |-> 4]

----------------------------------------------------------------------------
(* The length of a cut text                                                 *)

EndsWithEllipsis(t) == t # <<>> /\ t[Len(t)] = Run(".", 3)

\* C24: the text ContextBuilder._clean_html returns is never longer than
\* the limit of 15,000 characters, whether it was cut at a sentence end, at
\* a space or at no boundary at all.
C24_CutWithinLimit == Returned("clean_html") => TLen(f_out) <= 15000

\* a text whose last space within the limit is its 15,000th character: the
\* 14,999 characters before it and the ellipsis are returned, 15,002 in all
C24_EllipsisOverLimit ==
    /\ Returned("clean_html")
    /\ f_in = <<Run("x", 14999), Run(" ", 1), Run("y", 5000)>>
    /\ TLen(f_out) = 15002
    /\ EndsWithEllipsis(f_out)

\* cut at a sentence end the text stays within the limit
C24_SentenceCutWithinLimit ==
    Returned("clean_html") /\ TLen(CleanMarkup(f_in)) > 15000 /\ ~EndsWithEllipsis(f_out)
        => TLen(f_out) <= 15000

----------------------------------------------------------------------------
(* The linked items of every primary item                                   *)

IdsIn(items) == [i \in 1..Len(items) |-> items[i]["id"]]

\* the items the client fetched by traversing the relations of a primary item
FetchedFor(id) ==
    IF id \in DOMAIN server.status /\ server.status[id] = 200
    THEN get_linked_work_items(server, id) ELSE <<>>

\* the linked items the run hands to the context builder for a primary item
HandedFor(id) == Get(linked_by_primary, id, <<>>)

\* C25: for every primary item, the linked items handed to the context
\* builder are exactly the items fetched by traversing its relations,
\* whatever the type of the relation.
C25_LinkedItemsFollowTheirPrimary ==
    pc \in {"item", "attempt", "check"} =>
        \A p \in 1..Len(primary_items) :
            IdsIn(HandedFor(primary_items[p]["id"])) = IdsIn(FetchedFor(primary_items[p]["id"]))

\* the first item has a link of type Related: the linked item was fetched,
\* it is among the work items, yet the item's context is built without it
C25_RelatedItemDropped ==
    /\ pc = "attempt" /\ idx = 1
    /\ server.link = "related" /\ primary_items[1]["id"] = server.linker
    /\ IdsIn(FetchedFor(server.linker)) = <<ExtraId>>
    /\ \E w \in 1..Len(work_items) : work_items[w]["id"] = ExtraId /\ IsLinked(work_items[w])
    /\ HandedFor(server.linker) = <<>>
    /\ \A i \in 1..Len(full_context) : SectionOpened(full_context[i]) # "Relationships"

\* a linked child, which carries its parent in System.Parent, is handed over
C25_ChildrenFollowTheirParent ==
    pc \in {"item", "attempt", "check"} /\ server.link = "child" =>
        IdsIn(HandedFor(server.linker)) = IdsIn(FetchedFor(server.linker))

============================================================================
